---- MODULE Spec2Model ----
(***************************************************************************)
(* The social graph of the COVID-19 contact visualizer: social_graph.py's  *)
(* _Person and Graph classes.  The graph is the dictionary _people; each   *)
(* person holds its attributes, its infection flag, its neighbours         *)
(* dictionary (neighbour -> contact level) and the cached degrees_apart.   *)
(* recalculate_degrees is modelled call by call: one step per call of      *)
(* calculate_degrees_apart, per iteration of its loop and per return.      *)
(***************************************************************************)
EXTENDS Integers, FiniteSets, Sequences, TLC

(* ------------------------------- bounds -------------------------------- *)

\* identifiers the callers of the general specification draw from
NumPeople == 2
\* identifiers the callers of the degree specifications draw from
NumPeopleDegrees == 3
\* contact levels 1..MaxContact are given to add_edge
MaxContact == 2

\* identifiers (strings in the source) are numbered
Ids == 1..NumPeople
IdsDegrees == 1..NumPeopleDegrees
\* contact levels (floats in the source) are whole numbers
Weights == 1..MaxContact

\* (name, age, severity level in tenths) triples given to add_vertex
Profiles == {<<"Bob", 60, 9>>, <<"Jim", 30, 1>>}
ProfilesDegrees == {<<"Bob", 60, 9>>}

(* ----------------------------- the state ------------------------------- *)

VARIABLES
    people,           \* Graph._people: identifier -> _Person
    pc,               \* where recalculate_degrees is: idle, seed or propagate
    infected_people,  \* recalculate_degrees' local set, the seeds not yet propagated
    stack,            \* the active calls of calculate_degrees_apart, innermost last
    last,             \* the operation that ran last, how it ended and what it returned
    recomputed        \* degrees_apart as the last recompute left it, while nothing was mutated since

vars == <<people, pc, infected_people, stack, last, recomputed>>

\* Python's None: an unset degrees_apart, and what an operation without a result returns
None == -1

\* _Person.__init__
Person(identifier, name, age, severity_level) ==
    [identifier |-> identifier, name |-> name, age |-> age,
     severity_level |-> severity_level, infected |-> FALSE,
     neighbours |-> <<>>, degrees_apart |-> None]

Result(op, outcome, value) == [op |-> op, outcome |-> outcome, value |-> value]

NoMemo == [valid |-> FALSE, degrees |-> <<>>]

\* the degrees_apart attribute of every person
DegreesOf(p) == [id \in DOMAIN p |-> p[id].degrees_apart]

\* Graph.__init__
Init ==
    /\ people = <<>>
    /\ pc = "idle"
    /\ infected_people = {}
    /\ stack = <<>>
    /\ last = Result("init", "ok", None)
    /\ recomputed = NoMemo

(* --------------------------- dictionary helpers ------------------------ *)

\* d[k] = v on a dictionary
DictSet(d, k, v) == [x \in (DOMAIN d) \cup {k} |-> IF x = k THEN v ELSE d[x]]

(* ------------------------------ accessors ------------------------------ *)

\* Graph.get_weight: both people are looked up, then the neighbours dictionary
get_weight_result(p, person1, person2) ==
    IF person1 \notin DOMAIN p \/ person2 \notin DOMAIN p
    THEN Result("get_weight", "KeyError", None)
    ELSE IF person2 \notin DOMAIN p[person1].neighbours
         THEN Result("get_weight", "KeyError", None)
         ELSE Result("get_weight", "ok", p[person1].neighbours[person2])

get_weight(person1, person2) ==
    /\ pc = "idle"
    /\ last' = get_weight_result(people, person1, person2)
    /\ UNCHANGED <<people, pc, infected_people, stack, recomputed>>

\* get_contact_level with neighbours[person2] in place of neighbours.get(person2, 0)
get_contact_level_strict(p, identifier1, identifier2) ==
    IF identifier1 \notin DOMAIN p \/ identifier2 \notin DOMAIN p
    THEN Result("get_contact_level", "KeyError", None)
    ELSE IF identifier2 \notin DOMAIN p[identifier1].neighbours
         THEN Result("get_contact_level", "KeyError", None)
         ELSE Result("get_contact_level", "ok", p[identifier1].neighbours[identifier2])

\* Graph.get_contact_level: neighbours.get(person2, 0)
get_contact_level_result(p, identifier1, identifier2) ==
    IF identifier1 \notin DOMAIN p \/ identifier2 \notin DOMAIN p
    THEN Result("get_contact_level", "KeyError", None)
    ELSE IF identifier2 \notin DOMAIN p[identifier1].neighbours
         THEN Result("get_contact_level", "ok", 0)
         ELSE Result("get_contact_level", "ok", p[identifier1].neighbours[identifier2])

get_contact_level(identifier1, identifier2) ==
    /\ pc = "idle"
    /\ last' = get_contact_level_result(people, identifier1, identifier2)
    /\ UNCHANGED <<people, pc, infected_people, stack, recomputed>>

\* _Person.get_degree: the cached value, ValueError while it is None
get_degree_result(person) ==
    IF person.degrees_apart # None
    THEN Result("get_degree", "ok", person.degrees_apart)
    ELSE Result("get_degree", "ValueError", None)

get_degree(identifier) ==
    /\ pc = "idle"
    /\ identifier \in DOMAIN people
    /\ last' = get_degree_result(people[identifier])
    /\ UNCHANGED <<people, pc, infected_people, stack, recomputed>>

(* ------------------------------ mutators ------------------------------- *)

\* add_vertex without the test of line 166: a second insertion replaces the person
add_vertex_people_overwrite(p, identifier, name, age, severity_level) ==
    DictSet(p, identifier, Person(identifier, name, age, severity_level))

\* Graph.add_vertex
add_vertex_people(p, identifier, name, age, severity_level) ==
    IF identifier \notin DOMAIN p
    THEN DictSet(p, identifier, Person(identifier, name, age, severity_level))
    ELSE p

add_vertex(identifier, name, age, severity_level) ==
    /\ pc = "idle"
    /\ people' = add_vertex_people(people, identifier, name, age, severity_level)
    /\ last' = Result("add_vertex", "ok", None)
    /\ recomputed' = IF people' = people THEN recomputed ELSE NoMemo
    /\ UNCHANGED <<pc, infected_people, stack>>

\* add_edge without line 180: only person1's dictionary is written
add_edge_people_one_way(p, identifier1, identifier2, contact_level) ==
    [p EXCEPT ![identifier1].neighbours = DictSet(@, identifier2, contact_level)]

\* Graph.add_edge, lines 179-180: both neighbours dictionaries are written
add_edge_people(p, identifier1, identifier2, contact_level) ==
    LET p1 == [p EXCEPT ![identifier1].neighbours =
                   DictSet(@, identifier2, contact_level)]
    IN  [p1 EXCEPT ![identifier2].neighbours =
                   DictSet(@, identifier1, contact_level)]

\* add_edge writing person1's dictionary before person2 is looked up
add_edge_write_first(identifier1, identifier2, contact_level) ==
    /\ pc = "idle"
    /\ IF identifier1 \in DOMAIN people /\ identifier2 \in DOMAIN people
       THEN /\ people' = add_edge_people(people, identifier1, identifier2, contact_level)
            /\ last' = Result("add_edge", "ok", None)
            /\ recomputed' = NoMemo
       ELSE /\ people' = IF identifier1 \in DOMAIN people
                         THEN add_edge_people_one_way(people, identifier1, identifier2,
                                                      contact_level)
                         ELSE people
            /\ last' = Result("add_edge", "KeyError", None)
            /\ recomputed' = NoMemo
    /\ UNCHANGED <<pc, infected_people, stack>>

\* Graph.add_edge: the two lookups of lines 176-177 raise before anything is written
add_edge(identifier1, identifier2, contact_level) ==
    /\ pc = "idle"
    /\ IF identifier1 \in DOMAIN people /\ identifier2 \in DOMAIN people
       THEN /\ people' = add_edge_people(people, identifier1, identifier2, contact_level)
            /\ last' = Result("add_edge", "ok", None)
            /\ recomputed' = NoMemo
       ELSE /\ last' = Result("add_edge", "KeyError", None)
            /\ UNCHANGED <<people, recomputed>>
    /\ UNCHANGED <<pc, infected_people, stack>>

\* set_infected as a full reset: the people not named are cleared
set_infected_people_reset(p, marked) ==
    [id \in DOMAIN p |-> [p[id] EXCEPT !.infected = (id \in marked)]]

\* Graph.set_infected: the identifiers are visited in the set's order, so a missing
\* identifier raises after any part of the others has been marked
set_infected_people(p, marked) ==
    [id \in DOMAIN p |-> IF id \in marked THEN [p[id] EXCEPT !.infected = TRUE] ELSE p[id]]

set_infected(init_infected) ==
    /\ pc = "idle"
    /\ IF init_infected \subseteq DOMAIN people
       THEN /\ people' = set_infected_people(people, init_infected)
            /\ last' = Result("set_infected", "ok", None)
       ELSE /\ \E marked \in SUBSET (init_infected \cap DOMAIN people) :
                   people' = set_infected_people(people, marked)
            /\ last' = Result("set_infected", "KeyError", None)
    /\ recomputed' = IF people' = people THEN recomputed ELSE NoMemo
    /\ UNCHANGED <<pc, infected_people, stack>>

\* _Person.change_infection_status, on a person of the graph
change_infection_status(identifier) ==
    /\ pc = "idle"
    /\ identifier \in DOMAIN people
    /\ people' = [people EXCEPT ![identifier].infected = ~@]
    /\ last' = Result("change_infection_status", "ok", None)
    /\ recomputed' = NoMemo
    /\ UNCHANGED <<pc, infected_people, stack>>

(* ------------------------- degree calculation -------------------------- *)

\* _Person.reset_degree
reset_degree(person, zero) ==
    [person EXCEPT !.degrees_apart = IF zero THEN 0 ELSE None]

\* Graph._reset_degrees
reset_degrees(p) == [id \in DOMAIN p |-> reset_degree(p[id], FALSE)]

\* recalculate_degrees without line 204
seed_degrees_skipped(p) == p

\* Graph.recalculate_degrees, lines 202-205: every infected person is set to 0
seed_degrees(p) ==
    [id \in DOMAIN p |-> IF p[id].infected THEN reset_degree(p[id], TRUE) ELSE p[id]]

\* line 80 without the comparison: the first distance found is kept
SmallerFirstVisit(curr_degree, degrees_apart) == degrees_apart = None

\* the test of line 80
Smaller(curr_degree, degrees_apart) ==
    degrees_apart = None \/ curr_degree < degrees_apart

\* line 81 without the test of line 80: the last distance found is kept
update_degree_always(person, curr_degree) ==
    [person EXCEPT !.degrees_apart = curr_degree]

\* lines 80-81 of calculate_degrees_apart
update_degree(person, curr_degree) ==
    IF Smaller(curr_degree, person.degrees_apart)
    THEN [person EXCEPT !.degrees_apart = curr_degree]
    ELSE person

\* line 85 without the test
UnvisitedAlways(person, visited) == TRUE

\* the test of line 85
Unvisited(person, visited) == person \notin visited

\* a call of calculate_degrees_apart up to its loop (lines 77-84): visited now holds
\* self, and todo is what the loop over self.neighbours has still to yield
Frame(self, curr_degree, visited) ==
    [self |-> self, curr_degree |-> curr_degree, visited |-> visited \cup {self},
     todo |-> DOMAIN people[self].neighbours]

\* calling calculate_degrees_apart(curr_degree, visited, init_call) on self, with stk
\* the calls that stay active below it
Call(stk, self, curr_degree, visited, init_call) ==
    IF ~init_call /\ curr_degree = 0
    THEN /\ stack' = stk
         /\ UNCHANGED people
    ELSE /\ people' = [people EXCEPT ![self] = update_degree(@, curr_degree)]
         /\ stack' = Append(stk, Frame(self, curr_degree, visited))

\* Graph.recalculate_degrees, line 198
recalculate_degrees ==
    /\ pc = "idle"
    /\ people' = reset_degrees(people)
    /\ pc' = "seed"
    /\ last' = Result("recalculate_degrees", "running", None)
    /\ UNCHANGED <<infected_people, stack, recomputed>>

\* Graph.recalculate_degrees, lines 200-205
seed_infected ==
    /\ pc = "seed"
    /\ people' = seed_degrees(people)
    /\ infected_people' = {id \in DOMAIN people : people[id].infected}
    /\ pc' = "propagate"
    /\ UNCHANGED <<stack, last, recomputed>>

\* Graph.recalculate_degrees, lines 207-209: the next seed, in the set's order
propagate_seed ==
    /\ pc = "propagate"
    /\ stack = <<>>
    /\ \E infected_person \in infected_people :
          /\ infected_people' = infected_people \ {infected_person}
          /\ Call(<<>>, infected_person, 0, {}, TRUE)
    /\ UNCHANGED <<pc, last, recomputed>>

\* one iteration of the loop of lines 84-86 in the innermost call
propagate_neighbour ==
    /\ pc = "propagate"
    /\ stack # <<>>
    /\ LET top == stack[Len(stack)]
       IN  \E person \in top.todo :
             LET rest == [stack EXCEPT ![Len(stack)].todo = @ \ {person}]
             IN  IF Unvisited(person, top.visited)
                 THEN Call(rest, person, top.curr_degree + 1, top.visited, FALSE)
                 ELSE /\ stack' = rest
                      /\ UNCHANGED people
    /\ UNCHANGED <<pc, infected_people, last, recomputed>>

\* the innermost call has gone through all its neighbours and returns
propagate_return ==
    /\ pc = "propagate"
    /\ stack # <<>>
    /\ stack[Len(stack)].todo = {}
    /\ stack' = SubSeq(stack, 1, Len(stack) - 1)
    /\ UNCHANGED <<people, pc, infected_people, last, recomputed>>

\* every seed has propagated: recalculate_degrees returns
recalculate_return ==
    /\ pc = "propagate"
    /\ stack = <<>>
    /\ infected_people = {}
    /\ pc' = "idle"
    /\ last' = Result("recalculate_degrees", "ok", None)
    /\ recomputed' = [valid |-> TRUE, degrees |-> DegreesOf(people)]
    /\ UNCHANGED <<people, infected_people, stack>>

RecomputeStep ==
    \/ seed_infected
    \/ propagate_seed
    \/ propagate_neighbour
    \/ propagate_return
    \/ recalculate_return

(* --------------------------- specifications ---------------------------- *)

\* the operations, called with identifiers of I, contact levels of W and profiles of P
NextOn(I, W, P) ==
    \/ \E id \in I, pr \in P : add_vertex(id, pr[1], pr[2], pr[3])
    \/ \E id1, id2 \in I, w \in W : add_edge(id1, id2, w)
    \/ \E s \in SUBSET I : set_infected(s)
    \/ \E id \in I : change_infection_status(id)
    \/ \E id1, id2 \in I : get_weight(id1, id2)
    \/ \E id1, id2 \in I : get_contact_level(id1, id2)
    \/ \E id \in I : get_degree(id)
    \/ recalculate_degrees
    \/ RecomputeStep

Next == NextOn(Ids, Weights, Profiles)

Spec == Init /\ [][Next]_vars

NextDegrees == NextOn(IdsDegrees, {1}, ProfilesDegrees)

SpecDegrees == Init /\ [][NextDegrees]_vars

FairSpecDegrees == SpecDegrees /\ WF_vars(RecomputeStep)

(* ------------------------- reference definitions ----------------------- *)

Infected(p) == {id \in DOMAIN p : p[id].infected}

\* the people within k edges of an infected person
RECURSIVE Within(_, _)
Within(p, k) ==
    IF k = 0
    THEN Infected(p)
    ELSE LET r == Within(p, k - 1)
         IN  r \cup {v \in DOMAIN p : \E u \in r : v \in DOMAIN p[u].neighbours}

\* the breadth-first distance of v to the nearest infected person, None when no
\* infected person reaches v
HopCount(p, v) ==
    LET n == Cardinality(DOMAIN p)
    IN  IF v \notin Within(p, n)
        THEN None
        ELSE CHOOSE k \in 0..n : v \in Within(p, k) /\ \A j \in 0..(k - 1) : v \notin Within(p, j)

Adjacent(p, u, v) == v \in DOMAIN p[u].neighbours

Returned(op) == pc = "idle" /\ last.op = op /\ last.outcome = "ok"

(* -------------------------------- claims ------------------------------- *)

\* C1: when recalculate_degrees has just returned, get_degree of every person is the
\* breadth-first hop count to the nearest infected person, and raises ValueError
\* exactly for the people no infected person reaches.
C1_MinimumDistance ==
    Returned("recalculate_degrees") =>
        \A v \in DOMAIN people :
            get_degree_result(people[v]) =
                IF HopCount(people, v) = None
                THEN Result("get_degree", "ValueError", None)
                ELSE Result("get_degree", "ok", HopCount(people, v))

\* a recompute has returned on a triangle (a cycle, where the walk first reaches a
\* person by the longer way) or on a path with a person two hops away
C1_Witness ==
    /\ Returned("recalculate_degrees")
    /\ \E v \in DOMAIN people : people[v].degrees_apart = 2
    /\ \E v \in DOMAIN people : ~people[v].infected /\ people[v].degrees_apart = 1

\* the same with a person that no infected person reaches, next to a reached one
C1_WitnessUnreachable ==
    /\ Returned("recalculate_degrees")
    /\ \E v \in DOMAIN people : people[v].degrees_apart = None
    /\ \E v \in DOMAIN people : people[v].degrees_apart = 1

\* C2: no person is a key of its own neighbours dictionary.
C2_NoSelfLoops ==
    \A id \in DOMAIN people : ~Adjacent(people, id, id)

\* C3: the neighbour relation is symmetric and both sides store the same contact level.
C3_Symmetry ==
    \A u, v \in DOMAIN people :
        /\ Adjacent(people, u, v) <=> Adjacent(people, v, u)
        /\ Adjacent(people, u, v) => people[u].neighbours[v] = people[v].neighbours[u]

\* an add_edge has returned and two distinct people are joined at the highest level
C3_Witness ==
    /\ Returned("add_edge")
    /\ \E u, v \in DOMAIN people :
          u # v /\ Adjacent(people, u, v) /\ people[u].neighbours[v] = MaxContact

\* C4: a recompute that returns with nothing mutated since the previous recompute
\* returned leaves every degrees_apart as the previous one left it.
C4_RecomputeTwice ==
    [][(recalculate_return /\ recomputed.valid) => DegreesOf(people') = recomputed.degrees]_vars

\* a second recompute in a row is about to return, on a graph where some person is
\* two hops from the infected and the cache is not trivially empty
C4_Witness ==
    /\ pc = "propagate" /\ stack = <<>> /\ infected_people = {}
    /\ recomputed.valid
    /\ \E v \in DOMAIN people : people[v].degrees_apart = 2

\* C5: while the seeds propagate and when the recompute has returned, every infected
\* person's degrees_apart is 0; no step of the propagation raises or unsets a
\* degrees_apart that is set.
C5_SeedDistance ==
    /\ [](pc = "propagate" \/ Returned("recalculate_degrees") =>
             \A id \in Infected(people) : get_degree_result(people[id]).value = 0)
    /\ [][pc = "propagate" =>
             \A id \in DOMAIN people :
                 people[id].degrees_apart # None =>
                     /\ people'[id].degrees_apart # None
                     /\ people'[id].degrees_apart <= people[id].degrees_apart]_vars

\* a call of calculate_degrees_apart is active on an infected person that was reached
\* from another seed, at distance 1 or more
C5_Witness ==
    /\ pc = "propagate"
    /\ \E i \in 1..Len(stack) :
          /\ stack[i].curr_degree >= 1
          /\ people[stack[i].self].infected
          /\ people[stack[i].self].degrees_apart = 0

\* C6: set_infected(ids) with every id in the graph marks exactly the people of ids
\* and leaves every other flag, every neighbours dictionary, every degrees_apart and
\* every attribute as they were.
C6_SetInfectedFrame ==
    [][\A s \in SUBSET Ids :
          (set_infected(s) /\ s \subseteq DOMAIN people) =>
              /\ DOMAIN people' = DOMAIN people
              /\ \A id \in DOMAIN people :
                    people'[id] = [people[id] EXCEPT !.infected = (id \in s) \/ @]
              /\ last' = Result("set_infected", "ok", None)
              /\ UNCHANGED <<pc, infected_people, stack>>]_vars

\* set_infected has returned where an infected person has a cached distance of 1
\* (left by an earlier recompute) and another person is infected too
C6_Witness ==
    /\ Returned("set_infected")
    /\ \E id \in Infected(people) : people[id].degrees_apart = 1
    /\ Cardinality(Infected(people)) >= 2

\* C7: add_edge with an identifier that is not in the graph raises KeyError and
\* leaves the graph as it was.
C7_AddEdgeUnknown ==
    [][\A id1, id2 \in Ids, w \in Weights :
          (add_edge(id1, id2, w) /\ ~({id1, id2} \subseteq DOMAIN people)) =>
              /\ people' = people
              /\ last' = Result("add_edge", "KeyError", None)]_vars

\* add_edge has raised on a graph that holds a person (so one identifier was known)
C7_Witness ==
    /\ last = Result("add_edge", "KeyError", None)
    /\ people # <<>>

\* C8: between two people of the graph, get_weight and get_contact_level return the
\* contact level of the latest add_edge on the pair, in either order; without an
\* edge get_contact_level returns 0 and get_weight raises KeyError; neither changes
\* the graph.
C8_Lookups ==
    /\ [](\A x, y \in DOMAIN people :
             IF Adjacent(people, x, y)
             THEN /\ get_weight_result(people, x, y).outcome = "ok"
                  /\ get_contact_level_result(people, x, y).outcome = "ok"
                  /\ get_weight_result(people, x, y).value =
                         get_contact_level_result(people, x, y).value
             ELSE /\ get_weight_result(people, x, y) = Result("get_weight", "KeyError", None)
                  /\ get_contact_level_result(people, x, y) =
                         Result("get_contact_level", "ok", 0))
    /\ [][\A id1, id2 \in Ids, w \in Weights :
             (add_edge(id1, id2, w) /\ {id1, id2} \subseteq DOMAIN people) =>
                 \A x, y \in DOMAIN people :
                     IF {x, y} = {id1, id2}
                     THEN /\ get_weight_result(people', x, y) = Result("get_weight", "ok", w)
                          /\ get_contact_level_result(people', x, y) =
                                 Result("get_contact_level", "ok", w)
                     ELSE /\ get_weight_result(people', x, y) = get_weight_result(people, x, y)
                          /\ get_contact_level_result(people', x, y) =
                                 get_contact_level_result(people, x, y)]_vars
    /\ [][~(\E id1, id2 \in Ids, w \in Weights : add_edge(id1, id2, w)) =>
             \A x, y \in DOMAIN people :
                 /\ get_weight_result(people', x, y) = get_weight_result(people, x, y)
                 /\ get_contact_level_result(people', x, y) =
                        get_contact_level_result(people, x, y)]_vars
    /\ [][\A id1, id2 \in Ids :
             /\ get_weight(id1, id2) =>
                   people' = people /\ last' = get_weight_result(people, id1, id2)
             /\ get_contact_level(id1, id2) =>
                   people' = people /\ last' = get_contact_level_result(people, id1, id2)]_vars

\* get_contact_level has returned 0 where every identifier is in the graph and some
\* pair has an edge whose level was given as MaxContact
C8_Witness ==
    /\ last = Result("get_contact_level", "ok", 0)
    /\ DOMAIN people = Ids
    /\ \E x, y \in DOMAIN people : Adjacent(people, x, y) /\ people[x].neighbours[y] = MaxContact

\* C9: add_vertex with an identifier that is in the graph changes nothing: the number
\* of people, and the person's name, age, severity level, infected flag, neighbours
\* and degrees_apart.
C9_AddVertexIdempotent ==
    [][\A id \in Ids, pr \in Profiles :
          (add_vertex(id, pr[1], pr[2], pr[3]) /\ id \in DOMAIN people) =>
              people' = people]_vars

\* add_vertex has returned where every identifier is in the graph with a neighbour
\* (so the call inserted nothing: a new person has no neighbour), with an infected
\* person and a cached distance
C9_Witness ==
    /\ Returned("add_vertex")
    /\ DOMAIN people = Ids
    /\ \A id \in Ids : people[id].neighbours # <<>>
    /\ \E id \in Ids : people[id].infected
    /\ \E id \in Ids : people[id].degrees_apart = 1

\* C10: the active calls of calculate_degrees_apart follow a simple path, so there
\* are never more of them than people, and a recompute that has started returns.
C10_Terminates ==
    /\ [](/\ Len(stack) <= Cardinality(DOMAIN people)
          /\ \A i \in 1..Len(stack) :
                /\ stack[i].curr_degree = i - 1
                /\ stack[i].visited = {stack[j].self : j \in 1..i}
                /\ \A j \in 1..(i - 1) : stack[j].self # stack[i].self)
    /\ (pc # "idle") ~> (pc = "idle")

\* the recursion is as deep as the graph has people, on a triangle with two infected
C10_Witness ==
    /\ pc = "propagate"
    /\ Len(stack) = NumPeopleDegrees
    /\ Cardinality(Infected(people)) >= 2
    /\ \A u, v \in DOMAIN people : u # v => Adjacent(people, u, v)

====
